---- MODULE Spec2Model ----
(***************************************************************************)
(* Model of scripts/blender/export_qmsh.py: the Blender operator           *)
(* QuaazarMeshExporter.execute, the helpers hasOnlyTris, toQuaazarMesh and *)
(* round_, and QuaazarMesh.toJSON (json.dumps with sort_keys and indent).  *)
(*                                                                         *)
(* Numbers.  A host float (a double) is a record [neg, mag, side]: its     *)
(* sign bit, the magnitude of its decimal value in units of 1e-7, and the  *)
(* side on which the magnitude of the double lies of that decimal: 1       *)
(* above, -1 below (by less than one unit), 0 when the decimal is exact.   *)
(* The result of round_ is a record [neg, mag] with mag in units of 1e-6;  *)
(* neg with mag = 0 is the float -0.0.                                     *)
(* Text.  A Python str that is written to the file is a sequence of        *)
(* one-character strings, so that whitespace and key order are visible.    *)
(* Sequences are 1-based here and 0-based in the source.                   *)
(***************************************************************************)
EXTENDS Integers, Sequences, FiniteSets, TLC

VARIABLES pc, o, sparse, log, phmsh, fp, buf, file, limit, status, call, tris, json

vars == <<pc, o, sparse, log, phmsh, fp, buf, file, limit, status, call, tris, json>>

(***************************************************************************)
(* Bounds of the input space.                                              *)
(***************************************************************************)
MaxVerts == 2
MaxPolys == 2
MaxPolyLen == 4
LargeVerts == 50

(***************************************************************************)
(* Host data (bpy): vertices, polygons, loops, meshes, the active object.  *)
(***************************************************************************)
Vert(co, normal) == [co |-> co, normal |-> normal]

Float(neg, mag, side) == [neg |-> neg, mag |-> mag, side |-> side]

\* Host floats.  The doubles 2.5e-06 and 1.5e-06 lie above their decimals,
\* 3.5e-06 and 3e-07 below; 1/128 and 3/128 are exact ties at the 7th
\* decimal.
F_zero == Float(FALSE, 0, 0)
F_one == Float(FALSE, 10000000, 0)
F_2_5em6 == Float(FALSE, 25, 1)
F_3_5em6 == Float(FALSE, 35, -1)
F_minus_3em7 == Float(TRUE, 3, -1)
F_1_5em6 == Float(FALSE, 15, 1)
F_0_1234567 == Float(FALSE, 1234567, 1)
F_minus_0_1234567 == Float(TRUE, 1234567, 1)
F_1_128th == Float(FALSE, 78125, 0)
F_3_128th == Float(FALSE, 234375, 0)

V_small == Vert(<<F_zero, F_2_5em6, F_3_5em6>>, <<F_minus_3em7, F_zero, F_one>>)

V_general ==
  Vert(<<F_0_1234567, F_1_128th, F_3_128th>>, <<F_minus_0_1234567, F_1_5em6, F_one>>)

VertexPool == {V_small, V_general}

SeqsUpTo(S, n) == UNION { [1..k -> S] : k \in 0..n }

\* A polygon's vertex indices: a walk of length len from index start over
\* the vertex indices 0, 1, 2.
Polygon(start, len) == [vertices |-> [j \in 1..len |-> (start + j - 1) % 3]]

PolygonStarts == {0, 1}

Polygons == { Polygon(s, len) : s \in PolygonStarts, len \in 0..MaxPolyLen }

Loop(vi) == [vertex_index |-> vi]

RECURSIVE Flatten(_)
\* The host's loop list: every polygon's vertex indices, in polygon order.
Flatten(polys) ==
  IF polys = <<>> THEN <<>>
  ELSE [j \in 1..Len(Head(polys).vertices) |-> Loop(Head(polys).vertices[j])]
         \o Flatten(Tail(polys))

MeshNames == {"Cube", "Plane"}

\* A mesh whose indented document is longer than the handle's chunk size.
LargeMesh ==
  [name |-> "Cube",
   vertices |-> [k \in 1..LargeVerts |-> V_general],
   polygons |-> <<Polygon(0, 3)>>,
   loops |-> Flatten(<<Polygon(0, 3)>>)]

RawMeshes ==
  { [name |-> n, vertices |-> vs, polygons |-> ps, loops |-> Flatten(ps)] :
      n \in MeshNames,
      vs \in SeqsUpTo(VertexPool, MaxVerts),
      ps \in SeqsUpTo(Polygons, MaxPolys) }
    \cup {LargeMesh}

None == [none |-> TRUE]

Object(msh) == [data |-> msh]

(***************************************************************************)
(* round_ (round(x, 6)): the multiple of 1e-6 nearest to the exact value   *)
(* of the double, with the double's sign.  A double on a decimal tie of    *)
(* the 7th digit goes to the side it lies on, and to the even multiple     *)
(* when it is the tie exactly.                                             *)
(***************************************************************************)
round_(x) ==
  LET q  == x.mag \div 10
      r  == x.mag % 10
      up == \/ r > 5
            \/ r = 5 /\ x.side > 0
            \/ r = 5 /\ x.side = 0 /\ q % 2 = 1
  IN  [neg |-> x.neg, mag |-> IF up THEN q + 1 ELSE q]

(***************************************************************************)
(* hasOnlyTris: the for loop returns False at the first polygon with more  *)
(* than 3 vertices and True when the loop runs out.                        *)
(***************************************************************************)
\* hasOnlyTris returning from inside the loop: only polygon k decides.
hasOnlyTrisFirst(polys, k) ==
  IF k > Len(polys) THEN TRUE ELSE ~(Len(polys[k].vertices) > 3)

RECURSIVE hasOnlyTrisFrom(_, _)
hasOnlyTrisFrom(polys, k) ==
  IF k > Len(polys) THEN TRUE
  ELSE IF Len(polys[k].vertices) > 3 THEN FALSE
  ELSE hasOnlyTrisFrom(polys, k + 1)

hasOnlyTris(msh) == hasOnlyTrisFrom(msh.polygons, 1)

(***************************************************************************)
(* QuaazarMesh and toQuaazarMesh.                                          *)
(***************************************************************************)
QuaazarMesh(vs, vgr) == [vertices |-> vs, vgroup |-> vgr]

\* Lines 86-89: one [pos, nor, []] entry per host vertex, in order.
convertVertices(verts) ==
  [k \in 1..Len(verts) |->
     << <<round_(verts[k].co[1]), round_(verts[k].co[2]), round_(verts[k].co[3])>>,
        <<round_(verts[k].normal[1]), round_(verts[k].normal[2]), round_(verts[k].normal[3])>>,
        <<>> >>]

\* loops[i] with a 0-based i is in range iff i < len(loops); otherwise the
\* collection raises IndexError.
InRange(loops, i) == i >= 0 /\ i < Len(loops)

RECURSIVE vertexGroupLoop(_, _, _)
\* Lines 92-99: the while loop, from index i (0-based) with vg built so far.
\* Result: the list built and whether an index was out of range.
vertexGroupLoop(loops, i, vg) ==
  IF ~(i < Len(loops)) THEN [raised |-> FALSE, vg |-> vg]
  ELSE IF ~(InRange(loops, i + 1) /\ InRange(loops, i + 2))
       THEN [raised |-> TRUE, vg |-> vg]
  ELSE vertexGroupLoop(loops, i + 3,
         Append(vg, << loops[i + 1].vertex_index,
                       loops[i + 2].vertex_index,
                       loops[i + 3].vertex_index >>))

\* The call: raised is TRUE when it ends with IndexError (nothing is
\* returned then); vs and vg are the locals at that point.
toQuaazarMesh(msh) ==
  LET vs == convertVertices(msh.vertices)
      r  == vertexGroupLoop(msh.loops, 0, <<>>)
  IN  [raised |-> r.raised, vs |-> vs, vg |-> r.vg]

(***************************************************************************)
(* json.dumps(d, sort_keys=True, indent=i): the encoder of the standard    *)
(* library, producing the characters of the document.                      *)
(***************************************************************************)
Some(x) == [some |-> x]

\* JSON-serialisable Python values, tagged by their Python type.
JTrue == [t |-> "bool"]
JStr(s) == [t |-> "str", s |-> s]
JInt(n) == [t |-> "int", n |-> n]
JFloat(m) == [t |-> "float", m |-> m]
JList(items) == [t |-> "list", items |-> items]
JDict(items) == [t |-> "dict", items |-> items]

Letters ==
  << "a", "b", "c", "d", "e", "f", "g", "h", "i", "j", "k", "l", "m",
     "n", "o", "p", "q", "r", "s", "t", "u", "v", "w", "x", "y", "z" >>

\* Code point of a lower-case letter.
Ord(c) == 96 + CHOOSE k \in 1..26 : Letters[k] = c

RECURSIVE StrLess(_, _)
\* Python's a < b on str: lexicographic by code point.
StrLess(a, b) ==
  IF b = <<>> THEN FALSE
  ELSE IF a = <<>> THEN TRUE
  ELSE IF Ord(Head(a)) # Ord(Head(b)) THEN Ord(Head(a)) < Ord(Head(b))
  ELSE StrLess(Tail(a), Tail(b))

RECURSIVE Insert(_, _)
Insert(item, sorted) ==
  IF sorted = <<>> THEN <<item>>
  ELSE IF StrLess(item[1], Head(sorted)[1]) THEN <<item>> \o sorted
  ELSE <<Head(sorted)>> \o Insert(item, Tail(sorted))

RECURSIVE InsertDescending(_, _)
InsertDescending(item, sorted) ==
  IF sorted = <<>> THEN <<item>>
  ELSE IF StrLess(Head(sorted)[1], item[1]) THEN <<item>> \o sorted
  ELSE <<Head(sorted)>> \o InsertDescending(item, Tail(sorted))

RECURSIVE sortedItemsDescending(_)
\* The items sorted by descending key.
sortedItemsDescending(items) ==
  IF items = <<>> THEN <<>>
  ELSE InsertDescending(Head(items), sortedItemsDescending(Tail(items)))

RECURSIVE sortedItems(_)
\* sorted(dct.items()) under sort_keys=True: the items by ascending key.
sortedItems(items) ==
  IF items = <<>> THEN <<>>
  ELSE Insert(Head(items), sortedItems(Tail(items)))

DigitChar == << "0", "1", "2", "3", "4", "5", "6", "7", "8", "9" >>

RECURSIVE NatRepr(_)
\* Decimal digits of a natural number.
NatRepr(n) ==
  IF n < 10 THEN <<DigitChar[n + 1]>>
  ELSE NatRepr(n \div 10) \o <<DigitChar[(n % 10) + 1]>>

IntRepr(n) == IF n < 0 THEN <<"-">> \o NatRepr(0 - n) ELSE NatRepr(n)

RECURSIVE PadDigits(_, _)
\* The digits of f, zero-padded on the left to width digits.
PadDigits(f, width) ==
  IF width = 0 THEN <<>>
  ELSE PadDigits(f \div 10, width - 1) \o <<DigitChar[(f % 10) + 1]>>

RECURSIVE FracDigits(_, _)
\* The width-digit fraction f without its trailing zeros.
FracDigits(f, width) ==
  IF width = 0 THEN <<>>
  ELSE IF f % 10 = 0 THEN FracDigits(f \div 10, width - 1)
  ELSE PadDigits(f, width)

\* float.__repr__ of the float m ([neg, mag] with mag in 1e-6 units): the
\* shortest decimal, in exponent notation below 1e-4; -0.0 keeps its sign.
FloatRepr(m) ==
  LET a    == m.mag
      sign == IF m.neg THEN <<"-">> ELSE <<>>
      frac == FracDigits(a % 1000000, 6)
  IN  IF a = 0 THEN sign \o <<"0", ".", "0">>
      ELSE IF a >= 100
        THEN sign \o NatRepr(a \div 1000000) \o <<".">>
               \o (IF frac = <<>> THEN <<"0">> ELSE frac)
      ELSE IF a < 10
        THEN sign \o <<DigitChar[a + 1], "e", "-", "0", "6">>
      ELSE IF a % 10 = 0
        THEN sign \o <<DigitChar[(a \div 10) + 1], "e", "-", "0", "5">>
      ELSE sign \o <<DigitChar[(a \div 10) + 1], ".", DigitChar[(a % 10) + 1],
                     "e", "-", "0", "5">>

Quoted(s) == <<"\"">> \o s \o <<"\"">>

Spaces(n) == [k \in 1..n |-> " "]

\* The encoder's newline_indent at a nesting level; empty when indent is None.
NewlineIndent(indent, level) ==
  IF indent = None THEN <<>> ELSE <<"\n">> \o Spaces(indent.some * level)

\* item_separator: ', ' when indent is None, ',' otherwise.
ItemSeparator(indent) == IF indent = None THEN <<",", " ">> ELSE <<",">>

KeySeparator == <<":", " ">>

RECURSIVE Encode(_, _, _)
RECURSIVE EncodeItems(_, _, _, _, _)
\* Items k.. of a list or of a dict (isDict), each after its separator.
EncodeItems(items, k, isDict, indent, level) ==
  IF k > Len(items) THEN <<>>
  ELSE (IF k = 1 THEN <<>>
        ELSE ItemSeparator(indent) \o NewlineIndent(indent, level))
       \o (IF isDict
           THEN Quoted(items[k][1]) \o KeySeparator \o Encode(items[k][2], indent, level)
           ELSE Encode(items[k], indent, level))
       \o EncodeItems(items, k + 1, isDict, indent, level)

\* _iterencode with sort_keys=True; level is the current nesting level.
Encode(v, indent, level) ==
  CASE v.t = "bool"  -> <<"t", "r", "u", "e">>
    [] v.t = "str"   -> Quoted(v.s)
    [] v.t = "int"   -> IntRepr(v.n)
    [] v.t = "float" -> FloatRepr(v.m)
    [] v.t = "list"  ->
         IF v.items = <<>> THEN <<"[", "]">>
         ELSE <<"[">> \o NewlineIndent(indent, level + 1)
                \o EncodeItems(v.items, 1, FALSE, indent, level + 1)
                \o NewlineIndent(indent, level) \o <<"]">>
    [] v.t = "dict"  ->
         IF v.items = <<>> THEN <<"{", "}">>
         ELSE <<"{">> \o NewlineIndent(indent, level + 1)
                \o EncodeItems(sortedItems(v.items), 1, TRUE, indent, level + 1)
                \o NewlineIndent(indent, level) \o <<"}">>

dumps(d, indent) == Encode(d, indent, 0)

(***************************************************************************)
(* QuaazarMesh.toJSON.                                                     *)
(***************************************************************************)
K_vertices == << "v", "e", "r", "t", "i", "c", "e", "s" >>
K_interleaved == << "i", "n", "t", "e", "r", "l", "e", "a", "v", "e", "d" >>
K_values == << "v", "a", "l", "u", "e", "s" >>
K_vgroup == << "v", "g", "r", "o", "u", "p" >>
K_grouping == << "g", "r", "o", "u", "p", "i", "n", "g" >>
K_triangles == << "t", "r", "i", "a", "n", "g", "l", "e", "s" >>

FloatList(xs) == JList([k \in 1..Len(xs) |-> JFloat(xs[k])])

IntList(xs) == JList([k \in 1..Len(xs) |-> JInt(xs[k])])

\* self.vertices as json sees it: lists [pos, nor, []] of floats.
VerticesValue(vs) ==
  JList([k \in 1..Len(vs) |->
           JList(<< FloatList(vs[k][1]), FloatList(vs[k][2]), JList(<<>>) >>)])

\* self.vgroup as json sees it: lists of three ints.
VgroupValue(vg) == JList([k \in 1..Len(vg) |-> IntList(vg[k])])

\* Line 71: i = 2 if sparse else None.
indentOf(sp) == IF sp THEN Some(2) ELSE None

\* The dict literal with the two sequences exchanged.
documentExchanged(self) ==
  JDict(<< << K_vertices,
              JDict(<< <<K_interleaved, JTrue>>,
                       <<K_values, VgroupValue(self.vgroup)>> >>) >>,
           << K_vgroup,
              JDict(<< <<K_grouping, JStr(K_triangles)>>,
                       <<K_triangles, VerticesValue(self.vertices)>> >>) >> >>)

\* Line 72: the dict literal, in the order it is written.
documentOf(self) ==
  JDict(<< << K_vertices,
              JDict(<< <<K_interleaved, JTrue>>,
                       <<K_values, VerticesValue(self.vertices)>> >>) >>,
           << K_vgroup,
              JDict(<< <<K_grouping, JStr(K_triangles)>>,
                       <<K_triangles, VgroupValue(self.vgroup)>> >>) >> >>)

toJSON(self, sp) == dumps(documentOf(self), indentOf(sp))

(***************************************************************************)
(* QuaazarMeshExporter.execute, one action per statement that can end the  *)
(* call or change what the host sees.  pc is the position in the call:     *)
(* "idle" (not called), "select", "convert", "open", "write", "close",     *)
(* "footer", "done" (returned) and "raised" (left by an exception).        *)
(***************************************************************************)
Banner == "-- ----------------------- --"

Title == "-- Quaazar Mesh JSON Export --"

MsgNoMesh == "E: no mesh selected"

MsgNotEligible(name) ==
  "W: '" \o name \o "' is not elegible to export, please convert quadrangles to triangles"

MsgExporting(name) == "I: exporting '" \o name \o "'"

Unbound == [unbound |-> TRUE]

NoFile == [exists |-> FALSE, data |-> <<>>]

\* A status that tells an aborted export from a successful one.
returnStatusByOutcome(outcome) ==
  IF outcome = "exported" THEN {"FINISHED"} ELSE {"CANCELLED"}

\* Line 54: the value returned to the host, after outcome
\* ("none", "not_tris" or "exported").
returnStatus(outcome) == {"FINISHED"}

(***************************************************************************)
(* The handle open(filepath, "w") returns: an io.TextIOWrapper over an     *)
(* io.BufferedWriter over the file.  buf is the text the handle holds,     *)
(* file.data the text the device has taken.  limit is the number of        *)
(* characters the device takes before it fails (None: it never fails).     *)
(***************************************************************************)
\* io.TextIOWrapper: the number of pending characters from which a write
\* is passed on to the BufferedWriter.
ChunkSize == 8192

\* io.BufferedWriter: the size of its buffer (the block size of the file).
BufferSize == 4096

Flushes(pending) == Len(pending) >= ChunkSize

\* The devices: one that never fails, and ones that fail after a number
\* of characters.
Limits == {None, Some(0), Some(16), Some(100), Some(2000), Some(5143), Some(5144)}

\* How many of n characters a device with limit lim takes when it has
\* taken used characters already.
Taken(lim, used, n) ==
  IF lim = None THEN n
  ELSE IF lim.some - used <= 0 THEN 0
  ELSE IF n <= lim.some - used THEN n
  ELSE lim.some - used

\* fp.write(text) on a handle that holds nothing.  A text shorter than
\* the chunk size stays in the handle.  A longer one is passed on to the
\* BufferedWriter, which hands one that does not fit its buffer to the
\* device until no more than a buffer is left and keeps the rest; the
\* device failing before that raises OSError.  out is what the device has
\* taken, held what the handle holds afterwards.
writeText(text, lim, used) ==
  LET w == Taken(lim, used, Len(text))
  IN  IF ~Flushes(text) \/ Len(text) <= BufferSize
      THEN [raised |-> FALSE, out |-> <<>>, held |-> text]
      ELSE IF Len(text) - w > BufferSize
      THEN [raised |-> TRUE, out |-> SubSeq(text, 1, w), held |-> <<>>]
      ELSE [raised |-> FALSE, out |-> SubSeq(text, 1, w),
            held |-> SubSeq(text, w + 1, Len(text))]

\* fp.close(): the text the handle holds goes to the device; the device
\* not taking all of it raises OSError.  The handle is closed either way.
closeHandle(held, lim, used) ==
  LET w == Taken(lim, used, Len(held))
  IN  [raised |-> w < Len(held), out |-> SubSeq(held, 1, w)]

ActiveObjects == {None} \cup { Object(m) : m \in RawMeshes }

Locals ==
  /\ log = <<>>
  /\ phmsh = Unbound
  /\ fp = "unbound"
  /\ buf = <<>>
  /\ file = NoFile
  /\ limit = None
  /\ status = {}

Init ==
  /\ pc = "idle"
  /\ o = None
  /\ sparse = FALSE
  /\ Locals
  /\ call = "none"
  /\ tris = FALSE
  /\ json = <<>>

\* The host invokes the operator: an active object (or none), the sparse
\* property and a fresh destination path.  Lines 38-40.
Invoke ==
  /\ pc = "idle"
  /\ \E obj \in ActiveObjects, sp \in BOOLEAN :
       /\ o' = obj
       /\ sparse' = sp
  /\ log' = <<Banner, Title>>
  /\ phmsh' = Unbound
  /\ fp' = "unbound"
  /\ buf' = <<>>
  /\ file' = NoFile
  /\ limit' = None
  /\ status' = {}
  /\ pc' = "select"
  /\ UNCHANGED <<call, tris, json>>

\* Lines 41-42.
NoObject ==
  /\ pc = "select"
  /\ o = None
  /\ log' = Append(log, MsgNoMesh)
  /\ pc' = "footer"
  /\ UNCHANGED <<o, sparse, phmsh, fp, buf, file, limit, status, call, tris, json>>

\* Lines 44-46.
NotEligible ==
  /\ pc = "select"
  /\ o # None
  /\ ~hasOnlyTris(o.data)
  /\ log' = Append(log, MsgNotEligible(o.data.name))
  /\ pc' = "footer"
  /\ UNCHANGED <<o, sparse, phmsh, fp, buf, file, limit, status, call, tris, json>>

\* Lines 44-48.
Exporting ==
  /\ pc = "select"
  /\ o # None
  /\ hasOnlyTris(o.data)
  /\ log' = Append(log, MsgExporting(o.data.name))
  /\ pc' = "convert"
  /\ UNCHANGED <<o, sparse, phmsh, fp, buf, file, limit, status, call, tris, json>>

\* Line 49, returning.
Convert ==
  /\ pc = "convert"
  /\ ~toQuaazarMesh(o.data).raised
  /\ phmsh' = QuaazarMesh(toQuaazarMesh(o.data).vs, toQuaazarMesh(o.data).vg)
  /\ pc' = "open"
  /\ UNCHANGED <<o, sparse, log, fp, buf, file, limit, status, call, tris, json>>

\* Line 49, leaving execute with IndexError.
ConvertRaise ==
  /\ pc = "convert"
  /\ toQuaazarMesh(o.data).raised
  /\ pc' = "raised"
  /\ UNCHANGED <<o, sparse, log, phmsh, fp, buf, file, limit, status, call, tris, json>>

\* Line 50: open(filepath, "w") creates or truncates the file on the
\* device the path is on; the handle starts with nothing held.
Open ==
  /\ pc = "open"
  /\ \E lim \in Limits : limit' = lim
  /\ fp' = "open"
  /\ buf' = <<>>
  /\ file' = [exists |-> TRUE, data |-> <<>>]
  /\ pc' = "write"
  /\ UNCHANGED <<o, sparse, log, phmsh, status, call, tris, json>>

\* Line 50: open fails (OSError), no handle exists.
OpenFail ==
  /\ pc = "open"
  /\ pc' = "raised"
  /\ UNCHANGED <<o, sparse, log, phmsh, fp, buf, file, limit, status, call, tris, json>>

\* Line 51: fp.write returns; the text is held by the handle, or in the
\* file, or its head is in the file and its tail held by the handle.
Write ==
  /\ pc = "write"
  /\ ~writeText(toJSON(phmsh, sparse), limit, Len(file.data)).raised
  /\ file' = [exists |-> TRUE,
              data |-> file.data
                         \o writeText(toJSON(phmsh, sparse), limit, Len(file.data)).out]
  /\ buf' = writeText(toJSON(phmsh, sparse), limit, Len(file.data)).held
  /\ pc' = "close"
  /\ UNCHANGED <<o, sparse, log, phmsh, fp, limit, status, call, tris, json>>

\* Line 51: fp.write raises OSError: the device has failed with more than
\* a buffer of the text left.  What it took is in the file, the rest is
\* dropped; line 52 is not reached and the handle stays open.
WriteFail ==
  /\ pc = "write"
  /\ writeText(toJSON(phmsh, sparse), limit, Len(file.data)).raised
  /\ file' = [exists |-> TRUE,
              data |-> file.data
                         \o writeText(toJSON(phmsh, sparse), limit, Len(file.data)).out]
  /\ buf' = <<>>
  /\ pc' = "raised"
  /\ UNCHANGED <<o, sparse, log, phmsh, fp, limit, status, call, tris, json>>

\* Line 52: fp.close() puts the text the handle holds into the file and
\* closes.
Close ==
  /\ pc = "close"
  /\ ~closeHandle(buf, limit, Len(file.data)).raised
  /\ file' = [exists |-> TRUE,
              data |-> file.data \o closeHandle(buf, limit, Len(file.data)).out]
  /\ buf' = <<>>
  /\ fp' = "closed"
  /\ pc' = "footer"
  /\ UNCHANGED <<o, sparse, log, phmsh, limit, status, call, tris, json>>

\* Line 52: fp.close() raises OSError: the device does not take all the
\* text the handle holds.  What it took is in the file, the handle is
\* closed all the same, and execute is left without the footer and
\* without a status.
CloseFail ==
  /\ pc = "close"
  /\ closeHandle(buf, limit, Len(file.data)).raised
  /\ file' = [exists |-> TRUE,
              data |-> file.data \o closeHandle(buf, limit, Len(file.data)).out]
  /\ buf' = <<>>
  /\ fp' = "closed"
  /\ pc' = "raised"
  /\ UNCHANGED <<o, sparse, log, phmsh, limit, status, call, tris, json>>

Outcome ==
  IF o = None THEN "none"
  ELSE IF fp = "closed" THEN "exported" ELSE "not_tris"

\* Lines 53-54.
Return ==
  /\ pc = "footer"
  /\ log' = Append(log, Banner)
  /\ status' = returnStatus(Outcome)
  /\ pc' = "done"
  /\ UNCHANGED <<o, sparse, phmsh, fp, buf, file, limit, call, tris, json>>

\* The call is over (returned or raised): its frame is gone and the host
\* is ready for the next invocation.
Leave ==
  /\ pc \in {"done", "raised"}
  /\ pc' = "idle"
  /\ o' = None
  /\ sparse' = FALSE
  /\ log' = <<>>
  /\ phmsh' = Unbound
  /\ fp' = "unbound"
  /\ buf' = <<>>
  /\ file' = NoFile
  /\ limit' = None
  /\ status' = {}
  /\ UNCHANGED <<call, tris, json>>

Next ==
  \/ Invoke
  \/ NoObject
  \/ NotEligible
  \/ Exporting
  \/ Convert
  \/ ConvertRaise
  \/ Open
  \/ OpenFail
  \/ Write
  \/ WriteFail
  \/ Close
  \/ CloseFail
  \/ Return
  \/ Leave

Spec == Init /\ [][Next]_vars

(***************************************************************************)
(* The module's functions called on their own: hasOnlyTris and             *)
(* toQuaazarMesh on any host mesh, toJSON on any mesh toQuaazarMesh        *)
(* returns.  call names the last function called.                          *)
(***************************************************************************)
InitFn ==
  /\ pc = "idle"
  /\ o \in { Object(m) : m \in { r \in RawMeshes : r.name = "Cube" } }
  /\ sparse = FALSE
  /\ Locals
  /\ call = "none"
  /\ tris = FALSE
  /\ json = <<>>

CallHasOnlyTris ==
  /\ call = "none"
  /\ tris' = hasOnlyTris(o.data)
  /\ call' = "hasOnlyTris"
  /\ UNCHANGED <<pc, o, sparse, log, phmsh, fp, buf, file, limit, status, json>>

CallToQuaazarMesh ==
  /\ call = "none"
  /\ phmsh' = IF toQuaazarMesh(o.data).raised THEN Unbound
              ELSE QuaazarMesh(toQuaazarMesh(o.data).vs, toQuaazarMesh(o.data).vg)
  /\ call' = IF toQuaazarMesh(o.data).raised THEN "IndexError" ELSE "toQuaazarMesh"
  /\ UNCHANGED <<pc, o, sparse, log, fp, buf, file, limit, status, tris, json>>

CallToJSON ==
  /\ call = "toQuaazarMesh"
  /\ \E sp \in BOOLEAN :
       /\ sparse' = sp
       /\ json' = toJSON(phmsh, sp)
  /\ call' = "toJSON"
  /\ UNCHANGED <<pc, o, log, phmsh, fp, buf, file, limit, status, tris>>

NextFn ==
  \/ CallHasOnlyTris
  \/ CallToQuaazarMesh
  \/ CallToJSON

SpecFn == InitFn /\ [][NextFn]_vars

(***************************************************************************)
(* Properties.                                                             *)
(***************************************************************************)
Whitespace == {" ", "\n"}

HasWhitespace(text) == \E k \in 1..Len(text) : text[k] \in Whitespace

NotWhitespace(c) == c \notin Whitespace

StripWs(text) == SelectSeq(text, NotWhitespace)

\* Position of the first occurrence of pat in text, 0 when there is none.
IndexOf(text, pat) ==
  LET occ == { k \in 1..(Len(text) - Len(pat) + 1) :
                 SubSeq(text, k, k + Len(pat) - 1) = pat }
  IN  IF occ = {} THEN 0 ELSE CHOOSE k \in occ : \A j \in occ : k <= j

Ended == pc \in {"done", "raised"}

Returned(fn) == call = fn

\* C1: toJSON with sparse = true gives the rendering without indentation and
\* without any whitespace, and with sparse = false the rendering with a
\* 2-space indent (indent is none exactly when sparse is true).
C1_SparseIsCompact ==
  Returned("toJSON") =>
    /\ json = dumps(documentOf(phmsh), IF sparse THEN None ELSE Some(2))
    /\ sparse => ~HasWhitespace(json)

\* C2: toQuaazarMesh never raises, whatever the number n of loops, and
\* returns floor(n/3) triangles, triangle k being loops 3k, 3k+1, 3k+2; a
\* final partial stride is dropped.
C2_TruncatesPartialStride ==
  call \in {"toQuaazarMesh", "IndexError"} =>
    /\ call = "toQuaazarMesh"
    /\ Len(phmsh.vgroup) = Len(o.data.loops) \div 3
    /\ \A k \in 1..Len(phmsh.vgroup) :
         phmsh.vgroup[k] = << o.data.loops[3 * k - 2].vertex_index,
                              o.data.loops[3 * k - 1].vertex_index,
                              o.data.loops[3 * k].vertex_index >>

Reported(msg) == \E k \in 1..Len(log) : log[k] = msg

OutcomeNoObject ==
  /\ o = None
  /\ Reported(MsgNoMesh)
  /\ ~file.exists

OutcomeNotTriangulated ==
  /\ o # None
  /\ ~hasOnlyTris(o.data)
  /\ Reported(MsgNotEligible(o.data.name))
  /\ ~Reported(MsgExporting(o.data.name))
  /\ ~file.exists

OutcomeExported ==
  /\ o # None
  /\ hasOnlyTris(o.data)
  /\ Reported(MsgExporting(o.data.name))
  /\ phmsh # Unbound
  /\ file.exists
  /\ file.data = toJSON(phmsh, sparse)

\* C3: every invocation of execute ends in one of three outcomes: no active
\* object (error reported, no file), mesh not triangulated (warning naming
\* the mesh, no file), or exported (info naming the mesh and the serialized
\* mesh written); so the info message implies the file was written.
C3_ThreeOutcomes ==
  Ended => (OutcomeNoObject \/ OutcomeNotTriangulated \/ OutcomeExported)

AllAtMostThree(msh) ==
  \A k \in 1..Len(msh.polygons) : Len(msh.polygons[k].vertices) <= 3

\* C4: hasOnlyTris is true exactly for the meshes in which every polygon has
\* at most 3 vertices (polygons of 0, 1 or 2 vertices and the mesh without
\* polygons included), wherever a larger polygon is in the polygon order.
C4_HasOnlyTris ==
  Returned("hasOnlyTris") => (tris = AllAtMostThree(o.data))

C4_Witness ==
  /\ Returned("hasOnlyTris")
  /\ ~tris
  /\ Len(o.data.polygons) = 2
  /\ Len(o.data.polygons[1].vertices) < 3
  /\ Len(o.data.polygons[2].vertices) > 3

\* C5: for a mesh that passes hasOnlyTris and whose loops are its polygons'
\* vertex indices in polygon order, the mesh toQuaazarMesh returns has one
\* triangle per polygon, triangle k being the vertex indices of polygon k.
C5_OneTrianglePerPolygon ==
  (Returned("toQuaazarMesh") /\ hasOnlyTris(o.data)
     /\ o.data.loops = Flatten(o.data.polygons)) =>
    /\ Len(phmsh.vgroup) = Len(o.data.polygons)
    /\ \A k \in 1..Len(phmsh.vgroup) :
         phmsh.vgroup[k] = o.data.polygons[k].vertices

\* C6: once an invocation of execute has ended, by returning or by a
\* failure, the destination file handle is not open.
C6_HandleReleased == Ended => fp # "open"

\* The float y (1e-6 units) is the host float x rounded to 6 decimals: it
\* has the sign of x and its magnitude is the multiple of 1e-6 nearest to
\* the magnitude of the double x (the even one when x is a tie exactly).
IsRounded(x, y) ==
  LET d == 10 * y.mag - x.mag
  IN  /\ y.neg = x.neg
      /\ d >= -5
      /\ d <= 5
      /\ d = 5 => (x.side > 0 \/ (x.side = 0 /\ y.mag % 2 = 0))
      /\ d = -5 => (x.side < 0 \/ (x.side = 0 /\ y.mag % 2 = 0))

IsRoundedTriple(xs, ys) ==
  /\ Len(ys) = 3
  /\ \A c \in 1..3 : IsRounded(xs[c], ys[c])

\* C7: for every host mesh, whatever its polygons and loops are,
\* toQuaazarMesh returns a mesh that has as many vertices as the host mesh,
\* vertex i being [rounded position, rounded normal, empty extra] of host
\* vertex i.
C7_VerticesPreserved ==
  call \in {"toQuaazarMesh", "IndexError"} =>
    /\ call = "toQuaazarMesh"
    /\ Len(phmsh.vertices) = Len(o.data.vertices)
    /\ \A k \in 1..Len(phmsh.vertices) :
         /\ Len(phmsh.vertices[k]) = 3
         /\ IsRoundedTriple(o.data.vertices[k].co, phmsh.vertices[k][1])
         /\ IsRoundedTriple(o.data.vertices[k].normal, phmsh.vertices[k][2])
         /\ phmsh.vertices[k][3] = <<>>

KeyText(key) == Quoted(key) \o <<":">>

\* C8: in the text toJSON returns, for both values of sparse, the keys of
\* every object are in alphabetical order: "vertices" before "vgroup",
\* "interleaved" before "values" inside "vertices", "grouping" before
\* "triangles" inside "vgroup".
C8_KeysSorted ==
  Returned("toJSON") =>
    /\ 0 < IndexOf(json, KeyText(K_vertices))
    /\ IndexOf(json, KeyText(K_vertices)) < IndexOf(json, KeyText(K_interleaved))
    /\ IndexOf(json, KeyText(K_interleaved)) < IndexOf(json, KeyText(K_values))
    /\ IndexOf(json, KeyText(K_values)) < IndexOf(json, KeyText(K_vgroup))
    /\ IndexOf(json, KeyText(K_vgroup)) < IndexOf(json, KeyText(K_grouping))
    /\ IndexOf(json, KeyText(K_grouping)) < IndexOf(json, KeyText(K_triangles))

C8_Witness ==
  /\ Returned("toJSON")
  /\ ~sparse
  /\ Len(phmsh.vertices) = 1
  /\ Len(phmsh.vgroup) = 1
  /\ IndexOf(json, KeyText(K_triangles)) > IndexOf(json, KeyText(K_vgroup))

RECURSIVE Joined(_)
\* The texts of a sequence, separated by commas.
Joined(texts) ==
  IF texts = <<>> THEN <<>>
  ELSE IF Len(texts) = 1 THEN Head(texts)
  ELSE Head(texts) \o <<",">> \o Joined(Tail(texts))

Bracketed(texts) == <<"[">> \o Joined(texts) \o <<"]">>

FloatsText(xs) == Bracketed([k \in 1..Len(xs) |-> FloatRepr(xs[k])])

IntsText(xs) == Bracketed([k \in 1..Len(xs) |-> IntRepr(xs[k])])

\* The document of a mesh without any whitespace: two top-level keys;
\* "vertices" with "interleaved" true and "values" the vertices in order;
\* "vgroup" with "grouping" "triangles" and "triangles" the triangles in
\* order.
ExpectedDocument(mesh) ==
  <<"{">> \o Quoted(K_vertices) \o <<":", "{">>
    \o Quoted(K_interleaved) \o <<":", "t", "r", "u", "e", ",">>
    \o Quoted(K_values) \o <<":">>
    \o Bracketed([k \in 1..Len(mesh.vertices) |->
         Bracketed(<< FloatsText(mesh.vertices[k][1]),
                      FloatsText(mesh.vertices[k][2]),
                      <<"[", "]">> >>)])
    \o <<"}", ",">> \o Quoted(K_vgroup) \o <<":", "{">>
    \o Quoted(K_grouping) \o <<":">> \o Quoted(K_triangles) \o <<",">>
    \o Quoted(K_triangles) \o <<":">>
    \o Bracketed([k \in 1..Len(mesh.vgroup) |-> IntsText(mesh.vgroup[k])])
    \o <<"}", "}">>

\* C9: for both values of sparse, the document toJSON returns has exactly
\* the keys "vertices" and "vgroup"; "vertices" holds "interleaved" = true
\* and "values" = the mesh's vertices in order; "vgroup" holds "grouping" =
\* "triangles" and "triangles" = the mesh's triangles in order; apart from
\* whitespace the document does not depend on sparse.
C9_DocumentShape ==
  Returned("toJSON") => StripWs(json) = ExpectedDocument(phmsh)

C9_Witness ==
  /\ Returned("toJSON")
  /\ sparse
  /\ Len(phmsh.vertices) = 2
  /\ Len(phmsh.vgroup) = 2
  /\ phmsh.vgroup[1] # phmsh.vgroup[2]
  /\ HasWhitespace(json)

\* C10: every invocation of execute that returns hands {'FINISHED'} to the
\* host, whether no object was active, the mesh was not triangulated or the
\* mesh was exported.
C10_AlwaysFinished ==
  pc = "done" => status = {"FINISHED"}

C10_Witness ==
  /\ pc = "done"
  /\ o # None
  /\ ~hasOnlyTris(o.data)
  /\ Reported(MsgNotEligible(o.data.name))
  /\ ~file.exists
  /\ status = {"FINISHED"}

====
